---- MODULE Spec2Model ----
(***************************************************************************)
(* A model of the Meow front end (cat-dev-group/meow): the lexer of        *)
(* src/src/lexer/mod.rs driven one next_token call at a time, and the      *)
(* token cursor of the parser (src/src/parser/mod.rs) with the error       *)
(* responder it reports to (src/src/errors/mod.rs).                        *)
(*                                                                         *)
(* A char is a one-character string; a Rust String is a sequence of chars. *)
(* Rust measures String::len and slices strings in UTF-8 bytes, so every   *)
(* char carries its encoded length (Utf8Len) and a byte slice that does    *)
(* not fall on a char boundary panics, as it does in Rust.                 *)
(***************************************************************************)
EXTENDS Integers, Sequences, FiniteSets, TLC

(***************************************************************************)
(* Bounds of the model.                                                    *)
(***************************************************************************)
\* longest source drawn from the general alphabet
MaxLen == 4
\* next_token calls allowed after the first Eof (Eof is perpetual in the code)
MaxEofCalls == 2
\* longest source drawn from the alphabet of numbers
MaxNumLen == 6
\* most operator lexemes in a source of operators
MaxOps == 2
\* most blanks before the word of a source of words
MaxPad == 1
\* most chars appended to a keyword to make a longer identifier
MaxExt == 1
\* longest source drawn from the alphabet of operator characters
MaxPunctLen == 3
\* longest source drawn from the alphabet of char literals
MaxCharLen == 4
\* longest source handed to the parser
MaxParserLen == 3
\* most Parser::consume calls that find a token of another kind than expected
MaxMismatches == 1
\* longest source of integer literals and operators handed to parse_expression
MaxExprLen == 5
\* most lexemes in a source whose tokens are handed to get_precedence
MaxLexemes == 1
\* most calls of get_precedence on the token in `next`
MaxLookups == 1
\* longest source of a Responder that emit_error is called on directly
MaxResponderLen == 2
\* most labels handed to one call of emit_error
MaxLabels == 2
\* longest source handed to lib::parse
MaxParseLen == 3

(***************************************************************************)
(* Characters.                                                             *)
(***************************************************************************)
\* '\0': what peek() yields when the iterator is exhausted (lexer/mod.rs:110)
NUL == "\\0"
\* Option::None as returned by Chars::next at the end of the input
NoChar == "<None>"

\* the char of the model outside ASCII, named by its Rust escape: U+00E9, a
\* letter (XID_Start) of two bytes in UTF-8
E_ACUTE == "\\u{e9}"

\* char::len_utf8 for the characters of the model
Utf8Len(c) ==
    IF c = E_ACUTE THEN 2 ELSE 1

\* char::is_numeric restricted to the characters of the model
is_numeric(c) == c \in {"0", "1", "2", "3", "4", "5", "6", "7", "8", "9"}

AsciiLetters ==
    {"a", "b", "c", "d", "e", "f", "g", "h", "i", "j", "k", "l", "m",
     "n", "o", "p", "q", "r", "s", "t", "u", "v", "w", "x", "y", "z"}

\* UnicodeXID::is_xid_start restricted to the characters of the model
is_xid_start(c) == c \in AsciiLetters \cup {E_ACUTE}

\* UnicodeXID::is_xid_continue restricted to the characters of the model
is_xid_continue(c) == c \in AsciiLetters \cup {E_ACUTE, "_"} \/ is_numeric(c)

\* is_whitespace as its doc comment describes it, without the newline
is_whitespace_without_newline(c) == c \in {"\t", "\f", "\r", " "}

\* is_whitespace (Pattern_White_Space); the vertical tab and the non-ASCII
\* members of the list are not characters of the model
is_whitespace(c) == c \in {"\t", "\n", "\f", "\r", " "}

(***************************************************************************)
(* Rust strings: byte length and byte slices.                              *)
(***************************************************************************)
RECURSIVE ByteLen(_)
\* String::len: the length in UTF-8 bytes
ByteLen(s) == IF s = <<>> THEN 0 ELSE Utf8Len(Head(s)) + ByteLen(Tail(s))

\* the number of leading chars of s that make up exactly b bytes, or -1 when
\* byte offset b is past the end or inside a char (str::is_char_boundary)
CharIndex(s, b) ==
    LET fits == {k \in 0..Len(s) : ByteLen(SubSeq(s, 1, k)) = b}
    IN  IF fits = {} THEN -1 ELSE CHOOSE k \in fits : TRUE

\* the marker of a slice that panics
SlicePanic == <<"<slice panic>">>

\* &s[from..to]: the chars between two byte offsets, or SlicePanic
Slice(s, from, to) ==
    LET a == CharIndex(s, from)
        b == CharIndex(s, to)
    IN  IF a = -1 \/ b = -1 \/ from > to THEN SlicePanic
        ELSE SubSeq(s, a + 1, b)

\* &s[from..]
SliceFrom(s, from) == Slice(s, from, ByteLen(s))

\* a string literal of the source as a sequence of chars
Keyword_class  == <<"c", "l", "a", "s", "s">>
Keyword_else   == <<"e", "l", "s", "e">>
Keyword_false  == <<"f", "a", "l", "s", "e">>
Keyword_for    == <<"f", "o", "r">>
Keyword_fun    == <<"f", "u", "n">>
Keyword_if     == <<"i", "f">>
Keyword_impls  == <<"i", "m", "p", "l", "s">>
Keyword_import == <<"i", "m", "p", "o", "r", "t">>
Keyword_match  == <<"m", "a", "t", "c", "h">>
Keyword_mut    == <<"m", "u", "t">>
Keyword_return == <<"r", "e", "t", "u", "r", "n">>
Keyword_trait  == <<"t", "r", "a", "i", "t">>
Keyword_true   == <<"t", "r", "u", "e">>
Keyword_let    == <<"l", "e", "t">>
Keyword_while  == <<"w", "h", "i", "l", "e">>

(***************************************************************************)
(* State.                                                                  *)
(***************************************************************************)
VARIABLES
    source,           \* the chars of the source string handed to Lexer::new
    lexer,            \* the Lexer: consumed (chars taken from the Peekable
                      \* iterator), position, line, column
    tokens,           \* the tokens next_token has returned so far, in order
    status,           \* "running", or "panicked" once a call has panicked
    overflow_checks,  \* the build: TRUE when integer overflow panics (debug),
                      \* FALSE when it wraps (release)
    parser,           \* the Parser: its fields next and current
    stderr,           \* the diagnostics the Responder has written, in order
    lookups,          \* the calls of get_precedence made on the token in
                      \* `next`: the TokenKind given and the Precedence returned
    emitted,          \* the calls of emit_error made on the Responder from
                      \* outside the parser: the source the Responder held
                      \* and the arguments given
    stdout            \* the lines lib::parse has printed, in order

vars == <<source, lexer, tokens, status, overflow_checks, parser, stderr, lookups,
          emitted, stdout>>

\* Lexer::new
LexerNew == [consumed |-> 0, position |-> 1, line |-> 1, column |-> 1]

\* the result of a lexer method: the lexer afterwards, the token returned, and
\* whether the call panicked instead of returning
NoToken == [kind |-> "<none>", value |-> <<>>, line |-> 0, start |-> 0, end |-> 0]
Returned(lx, tok) == [lx |-> lx, tok |-> tok, panic |-> FALSE]
Panicked(lx) == [lx |-> lx, tok |-> NoToken, panic |-> TRUE]

\* Chars::next: the char the iterator yields, None at the end
SourceNext(lx) ==
    IF lx.consumed < Len(source) THEN source[lx.consumed + 1] ELSE NoChar

\* the iterator after Chars::next
Taken(lx) == IF lx.consumed < Len(source) THEN lx.consumed + 1 ELSE lx.consumed

\* Lexer::advance: the lexer afterwards (the char returned is SourceNext(lx))
advance(lx) ==
    [lx EXCEPT !.position = @ + 1, !.column = @ + 1, !.consumed = Taken(lx)]

\* Lexer::advance_line
advance_line(lx) ==
    [lx EXCEPT !.position = @ + 1, !.line = @ + 1, !.column = 1,
               !.consumed = Taken(lx)]

\* Lexer::peek
peek(lx) == IF lx.consumed < Len(source) THEN source[lx.consumed + 1] ELSE NUL

\* Lexer::newline_aware_advance
newline_aware_advance(lx) ==
    IF peek(lx) = "\n" THEN advance_line(lx) ELSE advance(lx)

\* Lexer::at_end
at_end(lx) == peek(lx) = NUL

\* a TokenKind: the variant and its payload (empty for a variant without one)
Kind(k) == [kind |-> k, value |-> <<>>]
KindOf(k, v) == [kind |-> k, value |-> v]

\* Lexer::create_token: `self.position as u32 - length` panics on underflow
\* in a build with overflow checks and wraps in one without. A u32 is held
\* as the signed reading of its 32 bits (the model checker's integers are
\* 32 bits wide), so the wrapped start 2^32 - k is held as -k
create_token(lx, kind, length) ==
    LET diff == lx.position - length
    IN  IF diff < 0 /\ overflow_checks THEN Panicked(lx)
        ELSE Returned(lx, [kind |-> kind.kind, value |-> kind.value,
                           line |-> lx.line,
                           start |-> diff,
                           end |-> lx.position])

(***************************************************************************)
(* The scanning methods of the Lexer.                                      *)
(***************************************************************************)
\* the messages of the Error tokens
UnknownCharacter(c) == <<"Unknown character found in source", c>>
UnterminatedString ==
    <<"Unterminated string literal, expected closing quote, EOF (End of File) encountered">>
UnterminatedChar ==
    <<"Unterminated char literal, expected closing single quote">>

\* with_single_or_double without the advance over the second char
with_single_or_double_no_advance(lx, expected_double, single, double) ==
    IF peek(lx) = expected_double
    THEN create_token(lx, Kind(double), 2)
    ELSE create_token(lx, Kind(single), 1)

\* with_single_or_double consuming the char after the first in both branches
with_single_or_double_always_advance(lx, expected_double, single, double) ==
    LET r == create_token(lx, Kind(IF peek(lx) = expected_double
                                   THEN double ELSE single),
                          IF peek(lx) = expected_double THEN 2 ELSE 1)
    IN  IF r.panic THEN r ELSE Returned(advance(lx), r.tok)

\* Lexer::with_single_or_double: the token is created before the second
\* char is consumed
with_single_or_double(lx, expected_double, single, double) ==
    IF peek(lx) = expected_double
    THEN LET r == create_token(lx, Kind(double), 2)
         IN  IF r.panic THEN r ELSE Returned(advance(lx), r.tok)
    ELSE create_token(lx, Kind(single), 1)

\* with_double consuming the char after the first in both branches
with_double_always_advance(lx, expected, kind) ==
    LET c == peek(lx)
        r == create_token(lx, IF c = expected THEN Kind(kind)
                              ELSE KindOf("Error", UnknownCharacter(c)), 1)
    IN  IF r.panic THEN r ELSE Returned(advance(lx), r.tok)

\* Lexer::with_double
with_double(lx, expected, kind) ==
    LET c == peek(lx)
    IN  IF c = expected
        THEN LET r == create_token(lx, Kind(kind), 1)
             IN  IF r.panic THEN r ELSE Returned(advance(lx), r.tok)
        ELSE create_token(lx, KindOf("Error", UnknownCharacter(c)), 1)

RECURSIVE string_body(_, _)
\* the while loop of lex_string: at the end of the input peek() is '\0',
\* which is not '"', so the loop goes on and unwraps the None of advance
string_body(lx, value) ==
    IF peek(lx) # "\""
    THEN IF SourceNext(lx) = NoChar
         THEN [lx |-> newline_aware_advance(lx), value |-> value, panic |-> TRUE]
         ELSE string_body(newline_aware_advance(lx), Append(value, SourceNext(lx)))
    ELSE [lx |-> lx, value |-> value, panic |-> FALSE]

\* Lexer::lex_string
lex_string(lx) ==
    LET body == string_body(lx, <<>>)
        length == ByteLen(body.value)
    IN  IF body.panic THEN Panicked(body.lx)
        ELSE IF at_end(body.lx)
        THEN create_token(body.lx, KindOf("Error", UnterminatedString), length + 1)
        ELSE create_token(advance(body.lx), KindOf("Str", body.value), length + 2)

RECURSIVE numeric_run(_, _)
\* the loops `while self.peek().is_numeric()` of lex_number
numeric_run(lx, value) ==
    IF is_numeric(peek(lx))
    THEN numeric_run(advance(lx), Append(value, SourceNext(lx)))
    ELSE [lx |-> lx, value |-> value]

RECURSIVE numeric_or_dot_run(_, _)
numeric_or_dot_run(lx, value) ==
    IF is_numeric(peek(lx)) \/ peek(lx) = "."
    THEN numeric_or_dot_run(advance(lx), Append(value, SourceNext(lx)))
    ELSE [lx |-> lx, value |-> value]

\* lex_number taking every dot and digit that follows into the literal
lex_number_absorbing_dots(lx, first_char) ==
    IF at_end(lx) THEN create_token(lx, KindOf("Int", <<first_char>>), 1)
    ELSE LET all == numeric_or_dot_run(lx, <<first_char>>)
             is_integer == \A i \in 1..Len(all.value) : all.value[i] # "."
         IN  create_token(all.lx,
                          KindOf(IF is_integer THEN "Int" ELSE "Float", all.value),
                          ByteLen(all.value))

\* Lexer::lex_number
lex_number(lx, first_char) ==
    IF at_end(lx) THEN create_token(lx, KindOf("Int", <<first_char>>), 1)
    ELSE LET whole == numeric_run(lx, <<first_char>>)
         IN  IF peek(whole.lx) = "."
             THEN LET frac == numeric_run(advance(whole.lx),
                                          Append(whole.value, SourceNext(whole.lx)))
                  IN  create_token(frac.lx, KindOf("Float", frac.value),
                                   ByteLen(frac.value))
             ELSE create_token(whole.lx, KindOf("Int", whole.value),
                               ByteLen(whole.value))

\* the TokenKind that stands for a panic inside ident_type
PanicKind == Kind("<panic>")

\* get_keyword comparing the whole value with the rest of the keyword
get_keyword_whole_value(value, keyword, length, token) ==
    IF value = SliceFrom(keyword, length) THEN Kind(token)
    ELSE KindOf("Ident", value)

\* Lexer::get_keyword: value[length..] == keyword[length..]
get_keyword(value, keyword, length, token) ==
    LET rest == SliceFrom(value, length)
    IN  IF rest = SlicePanic THEN PanicKind
        ELSE IF rest = SliceFrom(keyword, length) THEN Kind(token)
        ELSE KindOf("Ident", value)

\* `match &value[a..b] { ... }`: the arm chosen for the slice, a panic when
\* the slice panics
MatchSlice(value, a, b, arms, default) ==
    LET s == Slice(value, a, b)
    IN  IF s = SlicePanic THEN PanicKind
        ELSE IF s \in DOMAIN arms THEN arms[s] ELSE default

\* the arms of ident_type for a value starting with "f": the
\* `if value.len() < 2` statement has no return, so a short value goes on
\* to &value[1..2]
ident_type_f(value) ==
    MatchSlice(value, 1, 2,
        (<<"a">> :> get_keyword(value, Keyword_false, 2, "False")) @@
        (<<"o">> :> get_keyword(value, Keyword_for, 2, "For")) @@
        (<<"u">> :> get_keyword(value, Keyword_fun, 2, "Fun")),
        KindOf("Ident", value))

\* the arm "m" under "i": impls and import
ident_type_im(value) ==
    IF ByteLen(value) < 5 THEN KindOf("Ident", value)
    ELSE LET third == Slice(value, 2, 3)
         IN  IF third = SlicePanic THEN PanicKind
             ELSE IF third = <<"p">>
             THEN MatchSlice(value, 3, 4,
                      (<<"o">> :> get_keyword(value, Keyword_import, 4, "Import")) @@
                      (<<"l">> :> get_keyword(value, Keyword_impls, 4, "Impls")),
                      KindOf("Ident", value))
             ELSE KindOf("Ident", value)

\* the arms of ident_type for a value starting with "i": "if" is returned
\* on the second char alone
ident_type_i(value) ==
    IF ByteLen(value) < 2 THEN KindOf("Ident", value)
    ELSE MatchSlice(value, 1, 2,
             (<<"f">> :> Kind("If")) @@
             (<<"m">> :> ident_type_im(value)),
             KindOf("Ident", value))

\* the arms of ident_type for a value starting with "m"
ident_type_m(value) ==
    IF ByteLen(value) < 2 THEN KindOf("Ident", value)
    ELSE MatchSlice(value, 1, 2,
             (<<"a">> :> get_keyword(value, Keyword_match, 2, "Match")) @@
             (<<"u">> :> get_keyword(value, Keyword_mut, 2, "Mut")),
             KindOf("Ident", value))

\* the arms of ident_type for a value starting with "t"
ident_type_t(value) ==
    IF ByteLen(value) < 3 THEN KindOf("Ident", value)
    ELSE LET second == Slice(value, 1, 2)
         IN  IF second = SlicePanic THEN PanicKind
             ELSE IF second # <<"r">> THEN KindOf("Ident", value)
             ELSE MatchSlice(value, 2, 3,
                      (<<"u">> :> get_keyword(value, Keyword_true, 3, "True")) @@
                      (<<"a">> :> get_keyword(value, Keyword_trait, 3, "Trait")),
                      KindOf("Ident", value))

\* Lexer::ident_type: `match &value[..1]`
ident_type(value) ==
    LET first == Slice(value, 0, 1)
    IN  CASE first = SlicePanic -> PanicKind
          [] first = <<"c">> -> get_keyword(value, Keyword_class, 1, "Class")
          [] first = <<"e">> -> get_keyword(value, Keyword_else, 1, "Else")
          [] first = <<"f">> -> ident_type_f(value)
          [] first = <<"i">> -> ident_type_i(value)
          [] first = <<"l">> -> get_keyword(value, Keyword_let, 1, "Let")
          [] first = <<"m">> -> ident_type_m(value)
          [] first = <<"r">> -> get_keyword(value, Keyword_return, 1, "Return")
          [] first = <<"t">> -> ident_type_t(value)
          [] first = <<"w">> -> get_keyword(value, Keyword_while, 1, "While")
          [] OTHER -> KindOf("Ident", value)

RECURSIVE ident_run(_, _)
\* the loop `while is_xid_continue(self.peek())` of get_ident
ident_run(lx, value) ==
    IF is_xid_continue(peek(lx))
    THEN ident_run(advance(lx), Append(value, SourceNext(lx)))
    ELSE [lx |-> lx, value |-> value]

\* Lexer::get_ident
get_ident(lx, first_char) ==
    IF at_end(lx) THEN create_token(lx, KindOf("Ident", <<first_char>>), 1)
    ELSE LET run == ident_run(lx, <<first_char>>)
             token_type == ident_type(run.value)
         IN  IF token_type = PanicKind THEN Panicked(run.lx)
             ELSE create_token(run.lx, token_type, ByteLen(run.value))

\* Lexer::lex_char: the char of the literal is taken with advance, not with
\* newline_aware_advance
lex_char(lx) ==
    IF at_end(lx) THEN create_token(lx, KindOf("Error", UnterminatedChar), 1)
    ELSE LET value == SourceNext(lx)
             lx1 == advance(lx)
         IN  IF value = "'"
             THEN create_token(lx1, KindOf("Error", UnterminatedChar), 1)
             ELSE IF peek(lx1) # "'"
             THEN create_token(lx1, KindOf("Error", UnterminatedChar), 1)
             ELSE create_token(advance(lx1), KindOf("Char", <<value>>), 1)

\* the first arm of next_token: '.' followed by '.'
lex_range(lx) ==
    LET lx1 == advance(lx)
        range == create_token(lx1, Kind("Range"), 2)
    IN  IF range.panic THEN range
        ELSE IF peek(lx1) = "="
        THEN create_token(advance(lx1), Kind("RangeInclusive"), 3)
        ELSE range

\* the arms of next_token that create a one-char token
SingleCharTokens ==
    ("(" :> "OpenParen") @@ (")" :> "CloseParen") @@ ("[" :> "OpenBracket") @@
    ("]" :> "CloseBracket") @@ ("{" :> "OpenBrace") @@ ("}" :> "CloseBrace") @@
    ("," :> "Comma") @@ ("." :> "Dot") @@ (";" :> "Semicolon")

\* the arms of next_token that call with_single_or_double
SingleOrDoubleTokens ==
    ("=" :> <<"Equal", "EqualEqual">>) @@ ("!" :> <<"Bang", "BangEqual">>) @@
    (">" :> <<"Greater", "GreaterEqual">>) @@ ("<" :> <<"Less", "LessEqual">>) @@
    ("+" :> <<"Plus", "PlusEqual">>) @@ ("-" :> <<"Minus", "MinusEqual">>) @@
    ("*" :> <<"Star", "StarEqual">>) @@ ("/" :> <<"Slash", "SlashEqual">>)

RECURSIVE next_token(_)
\* Lexer::next_token
next_token(lx) ==
    LET c == SourceNext(lx)
        lx1 == newline_aware_advance(lx)
    IN  CASE c = NoChar -> create_token(lx1, Kind("Eof"), 0)
          [] c = "." /\ peek(lx1) = "." -> lex_range(lx1)
          [] c \in DOMAIN SingleCharTokens /\ ~(c = "." /\ peek(lx1) = ".") ->
                create_token(lx1, Kind(SingleCharTokens[c]), 1)
          [] c = "&" -> with_double(lx1, "&", "And")
          [] c = "|" -> with_double(lx1, "|", "Or")
          [] c \in DOMAIN SingleOrDoubleTokens ->
                with_single_or_double(lx1, "=", SingleOrDoubleTokens[c][1],
                                      SingleOrDoubleTokens[c][2])
          [] is_whitespace(c) -> next_token(lx1)
          [] c = "\"" -> lex_string(lx1)
          [] c = "'" -> lex_char(lx1)
          [] c \in {"0", "1", "2", "3", "4", "5", "6", "7", "8", "9"} ->
                lex_number(lx1, c)
          [] c = "_" \/ is_xid_start(c) -> get_ident(lx1, c)
          [] OTHER -> create_token(lx1, KindOf("Error", UnknownCharacter(c)), 1)

(***************************************************************************)
(* The operation: one call of next_token by the caller's loop              *)
(* (lib.rs parse, tests/lexer.rs test_tokens).                             *)
(***************************************************************************)
\* the number of Eof tokens returned so far
EofCount == Cardinality({i \in 1..Len(tokens) : tokens[i].kind = "Eof"})

\* one call of Lexer::next_token; a panic ends the process
NextToken ==
    /\ status = "running"
    /\ EofCount < MaxEofCalls
    /\ LET r == next_token(lexer)
       IN  /\ lexer' = r.lx
           /\ tokens' = IF r.panic THEN tokens ELSE Append(tokens, r.tok)
           /\ status' = IF r.panic THEN "panicked" ELSE "running"
    /\ UNCHANGED <<source, overflow_checks, parser, stderr, lookups, emitted, stdout>>

\* the TokenKind of a token
KV(t) == [kind |-> t.kind, value |-> t.value]

(***************************************************************************)
(* The Responder (errors/mod.rs).                                          *)
(***************************************************************************)
\* Label::new
Label(start, end, text) == [start |-> start, end |-> end, text |-> text]

\* Display for ErrorKind
ErrorKindDisplay == ("InvalidSyntax" :> "Invalid Syntax") @@
                    ("ExpectedToken" :> "Expected token")

RECURSIVE render_labels(_, _)
\* the loop of emit_error over the labels: each label is written as the
\* slice &self.source[label.start..label.end], label.start + 1 blanks before
\* the carets, and its text; a slice that panics ends the loop with the
\* earlier labels written
render_labels(labels, written) ==
    IF labels = <<>> THEN [labels |-> written, panic |-> FALSE]
    ELSE LET label == Head(labels)
             snippet == Slice(source, label.start, label.end)
         IN  IF snippet = SlicePanic THEN [labels |-> written, panic |-> TRUE]
             ELSE render_labels(Tail(labels),
                                Append(written, [snippet |-> snippet,
                                                 indent |-> label.start + 1,
                                                 text |-> label.text]))

\* emit_error leaving the last label unwritten
emit_error_dropping_last_label(err, kind, line, column, filename, labels, message) ==
    LET rendered == render_labels(SubSeq(labels, 1, Len(labels) - 1), <<>>)
    IN  [stderr |-> Append(err, [kind |-> ErrorKindDisplay[kind],
                                 filename |-> filename,
                                 line |-> line,
                                 column |-> column,
                                 labels |-> rendered.labels,
                                 note |-> IF rendered.panic THEN <<>> ELSE message,
                                 complete |-> ~rendered.panic]),
         panic |-> rendered.panic]

\* emit_error checking the labels: it stops at a label it cannot slice,
\* writes the note and returns
emit_error_validating_labels(err, kind, line, column, filename, labels, message) ==
    LET rendered == render_labels(labels, <<>>)
    IN  [stderr |-> Append(err, [kind |-> ErrorKindDisplay[kind],
                                 filename |-> filename,
                                 line |-> line,
                                 column |-> column,
                                 labels |-> rendered.labels,
                                 note |-> message,
                                 complete |-> TRUE]),
         panic |-> FALSE]

\* Responder::emit_error: the diagnostic written to the standard error after
\* those of `err`: the `Error - kind` line, the `= at file:line:column` line,
\* the labels, and the note, which a panic in the labels leaves unwritten
emit_error(err, kind, line, column, filename, labels, message) ==
    LET rendered == render_labels(labels, <<>>)
    IN  [stderr |-> Append(err, [kind |-> ErrorKindDisplay[kind],
                                 filename |-> filename,
                                 line |-> line,
                                 column |-> column,
                                 labels |-> rendered.labels,
                                 note |-> IF rendered.panic THEN <<>> ELSE message,
                                 complete |-> ~rendered.panic]),
         panic |-> rendered.panic]

(***************************************************************************)
(* The Parser (parser/mod.rs): the token cursor.                           *)
(***************************************************************************)
\* the filename handed to Parser::new (main.rs:29)
FileName == "main.mw"

\* Parser::new: next and current are None, ast is the empty vector
ParserNew == [next |-> NoToken, current |-> NoToken, ast |-> <<>>]

\* the column field of a token: the third argument of Token::new, which
\* create_token sets to position - length
TokenColumn(tok) == tok.start

\* parser_error reporting every token at line 1, column 1
parser_error_at_origin(err, kind, token, labels, message) ==
    emit_error(err, kind, 1, 1, FileName, labels, message)

\* Parser::parser_error
parser_error(err, kind, token, labels, message) ==
    emit_error(err, kind, token.line, TokenColumn(token), FileName, labels, message)

\* parser_advance taking whatever token the lexer yields, Error tokens too
parser_advance_no_skip(p, lx, toks, err) ==
    LET r == next_token(lx)
    IN  [parser |-> [p EXCEPT !.next = r.tok, !.current = p.next], lexer |-> r.lx,
         tokens |-> IF r.panic THEN toks ELSE Append(toks, r.tok),
         stderr |-> err, panic |-> r.panic]

\* parser_advance leaving `current` as it is
parser_advance_no_shift(p, lx, toks, err) ==
    LET r == next_token(lx)
    IN  [parser |-> [p EXCEPT !.next = r.tok], lexer |-> r.lx,
         tokens |-> IF r.panic THEN toks ELSE Append(toks, r.tok),
         stderr |-> err, panic |-> r.panic]

RECURSIVE advance_loop(_, _, _, _)
\* one turn of the loop of Parser::advance, r being what next_token did:
\* p.next is overwritten with the token, an Error token is reported (with
\* no labels) and the loop goes on, any other token ends it; a panic of the
\* lexer ends the call
advance_turn(p, toks, err, r) ==
    IF r.panic
    THEN [parser |-> p, lexer |-> r.lx, tokens |-> toks, stderr |-> err,
          panic |-> TRUE]
    ELSE IF r.tok.kind = "Error"
    THEN LET e == parser_error(err, "InvalidSyntax", r.tok, <<>>, r.tok.value)
         IN  IF e.panic
             THEN [parser |-> [p EXCEPT !.next = r.tok], lexer |-> r.lx,
                   tokens |-> Append(toks, r.tok), stderr |-> e.stderr,
                   panic |-> TRUE]
             ELSE advance_loop([p EXCEPT !.next = r.tok], r.lx,
                               Append(toks, r.tok), e.stderr)
    ELSE [parser |-> [p EXCEPT !.next = r.tok], lexer |-> r.lx,
          tokens |-> Append(toks, r.tok), stderr |-> err, panic |-> FALSE]

\* the loop of Parser::advance
advance_loop(p, lx, toks, err) == advance_turn(p, toks, err, next_token(lx))

\* parser_advance filling a buffer ahead of the cursor: it pulls the token
\* after the new `next` as well
parser_advance_pulling_ahead(p, lx, toks, err) ==
    LET r == advance_loop([p EXCEPT !.next = NoToken, !.current = p.next], lx, toks, err)
        ahead == next_token(r.lexer)
    IN  IF r.panic \/ ahead.panic THEN r
        ELSE [r EXCEPT !.lexer = ahead.lx, !.tokens = Append(r.tokens, ahead.tok)]

\* Parser::advance: `self.current = self.next.take()`, then the loop
parser_advance(p, lx, toks, err) ==
    advance_loop([p EXCEPT !.next = NoToken, !.current = p.next], lx, toks, err)

\* consume returning after the report of a mismatch, without the advance
consume_stopping_at_mismatch(p, lx, toks, err, expected, message, labels) ==
    IF p.next = NoToken
    THEN [parser |-> p, lexer |-> lx, tokens |-> toks, stderr |-> err,
          panic |-> TRUE]
    ELSE IF KV(p.next) # expected
    THEN LET e == emit_error(err, "InvalidSyntax", p.next.line,
                             TokenColumn(p.next), FileName, labels, message)
         IN  [parser |-> p, lexer |-> lx, tokens |-> toks,
              stderr |-> e.stderr, panic |-> e.panic]
    ELSE parser_advance(p, lx, toks, err)

\* consume whose advance leaves `current` as it was
consume_keeping_current(p, lx, toks, err, expected, message, labels) ==
    IF p.next = NoToken
    THEN [parser |-> p, lexer |-> lx, tokens |-> toks, stderr |-> err,
          panic |-> TRUE]
    ELSE LET e == IF KV(p.next) # expected
                  THEN emit_error(err, "InvalidSyntax", p.next.line,
                                  TokenColumn(p.next), FileName, labels, message)
                  ELSE [stderr |-> err, panic |-> FALSE]
         IN  IF e.panic
             THEN [parser |-> p, lexer |-> lx, tokens |-> toks,
                   stderr |-> e.stderr, panic |-> TRUE]
             ELSE parser_advance_no_shift(p, lx, toks, e.stderr)

\* Parser::consume: next.unwrap() panics on None; a token of another kind
\* (variant or payload) than expected is reported; then advance
consume(p, lx, toks, err, expected, message, labels) ==
    IF p.next = NoToken
    THEN [parser |-> p, lexer |-> lx, tokens |-> toks, stderr |-> err,
          panic |-> TRUE]
    ELSE LET e == IF KV(p.next) # expected
                  THEN emit_error(err, "InvalidSyntax", p.next.line,
                                  TokenColumn(p.next), FileName, labels, message)
                  ELSE [stderr |-> err, panic |-> FALSE]
         IN  IF e.panic
             THEN [parser |-> p, lexer |-> lx, tokens |-> toks,
                   stderr |-> e.stderr, panic |-> TRUE]
             ELSE parser_advance(p, lx, toks, e.stderr)

(***************************************************************************)
(* Precedence levels (parser/precedence.rs) and the parsing of expressions *)
(* (parser/expression.rs).                                                 *)
(***************************************************************************)
\* Option<u8>: None is the empty sequence, Some(x) the sequence of x
None == <<>>
Some(x) == <<x>>

\* Option::unwrap_or
unwrap_or(option, default) == IF option = None THEN default ELSE option[1]

\* Precedence::new
Precedence(prefix, infix) == [prefix |-> prefix, infix |-> infix]

\* get_precedence with the levels of the terms and of the factors exchanged
get_precedence_factor_below_term(op) ==
    CASE op.kind \in {"Equal", "PlusEqual", "MinusEqual", "StarEqual", "SlashEqual"} ->
            Precedence(None, Some(1))
      [] op.kind = "Or" -> Precedence(None, Some(2))
      [] op.kind = "And" -> Precedence(None, Some(3))
      [] op.kind \in {"EqualEqual", "BangEqual"} -> Precedence(None, Some(4))
      [] op.kind \in {"Greater", "GreaterEqual", "Less", "LessEqual"} ->
            Precedence(None, Some(5))
      [] op.kind = "Plus" -> Precedence(None, Some(7))
      [] op.kind = "Minus" -> Precedence(Some(8), Some(7))
      [] op.kind \in {"Star", "Slash"} -> Precedence(None, Some(6))
      [] op.kind = "Bang" -> Precedence(Some(8), None)
      [] op.kind \in {"OpenParen", "Dot"} -> Precedence(None, Some(9))
      [] OTHER -> Precedence(None, Some(0))

\* get_precedence
get_precedence(op) ==
    CASE op.kind \in {"Equal", "PlusEqual", "MinusEqual", "StarEqual", "SlashEqual"} ->
            Precedence(None, Some(1))
      [] op.kind = "Or" -> Precedence(None, Some(2))
      [] op.kind = "And" -> Precedence(None, Some(3))
      [] op.kind \in {"EqualEqual", "BangEqual"} -> Precedence(None, Some(4))
      [] op.kind \in {"Greater", "GreaterEqual", "Less", "LessEqual"} ->
            Precedence(None, Some(5))
      [] op.kind = "Plus" -> Precedence(None, Some(6))
      [] op.kind = "Minus" -> Precedence(Some(8), Some(6))
      [] op.kind \in {"Star", "Slash"} -> Precedence(None, Some(7))
      [] op.kind = "Bang" -> Precedence(Some(8), None)
      [] op.kind \in {"OpenParen", "Dot"} -> Precedence(None, Some(9))
      [] OTHER -> Precedence(None, Some(0))

\* the value of a decimal digit
DigitValue ==
    ("0" :> 0) @@ ("1" :> 1) @@ ("2" :> 2) @@ ("3" :> 3) @@ ("4" :> 4) @@
    ("5" :> 5) @@ ("6" :> 6) @@ ("7" :> 7) @@ ("8" :> 8) @@ ("9" :> 9)

RECURSIVE parse_isize(_, _)
\* str::parse::<isize> on a run of decimal digits, from the value acc of the
\* digits before; the runs of the model are far too short to overflow
parse_isize(digits, acc) ==
    IF digits = <<>> THEN acc
    ELSE parse_isize(Tail(digits), 10 * acc + DigitValue[Head(digits)])

\* the value of the unit type, which parse_expression returns
Unit == [node |-> "()"]

\* Parser::parse_literal for the Int token in `next`: the Expr::Literal
parse_literal(next) ==
    [node |-> "Literal",
     value |-> [lit |-> "Integer", value |-> parse_isize(next.value, 0)],
     position |-> [span |-> [start |-> next.start,
                             end |-> next.start + ByteLen(next.value)],
                   line |-> next.line,
                   column |-> TokenColumn(next)]]

\* the outcome of a call of parse_expression that leaves the parser as st has
\* it: the call returns (), or panics
ExpressionOutcome(st, panic) ==
    [parser |-> st.parser, lexer |-> st.lexer, tokens |-> st.tokens,
     stderr |-> st.stderr, value |-> Unit, panic |-> panic]

RECURSIVE parse_expression(_, _, _, _, _)
RECURSIVE expression_loop(_, _, _)

\* the loop of parse_expression after the recursive call r
expression_after_rhs(r, precedence, lhs) ==
    IF r.panic THEN r ELSE expression_loop(r, precedence, lhs)

\* the body of the loop of parse_expression after its advance a: the
\* recursive call with the precedence of the token then in `next`
expression_rhs(a, precedence, lhs) ==
    IF a.panic THEN ExpressionOutcome(a, TRUE)
    ELSE expression_after_rhs(
             parse_expression(a.parser, a.lexer, a.tokens, a.stderr,
                              get_precedence(KV(a.parser.next))),
             precedence, lhs)

\* the while loop of parse_expression: its condition reads the token in
\* `next`, which after parse_literal is still the literal; lhs is not used
\* and nothing is assigned to rhs
expression_loop(st, precedence, lhs) ==
    IF unwrap_or(precedence.infix, 0)
           <= unwrap_or(get_precedence(KV(st.parser.next)).infix, 0)
    THEN expression_rhs(parser_advance(st.parser, st.lexer, st.tokens, st.stderr),
                        precedence, lhs)
    ELSE ExpressionOutcome(st, FALSE)

\* parse_expression after its advance a: the match on the kind of `next`,
\* whose arm for every kind but Int is todo!(), a panic
expression_lhs(a, precedence) ==
    IF a.panic THEN ExpressionOutcome(a, TRUE)
    ELSE IF a.parser.next.kind # "Int" THEN ExpressionOutcome(a, TRUE)
    ELSE expression_loop(a, precedence, parse_literal(a.parser.next))

\* Parser::parse_expression
parse_expression(p, lx, toks, err, precedence) ==
    expression_lhs(parser_advance(p, lx, toks, err), precedence)

\* the state after the call whose outcome is r
Outcome(r) ==
    /\ parser' = r.parser
    /\ lexer' = r.lexer
    /\ tokens' = r.tokens
    /\ stderr' = r.stderr
    /\ status' = IF r.panic THEN "panicked" ELSE "running"
    /\ UNCHANGED <<source, overflow_checks, lookups, emitted, stdout>>

\* one call of Parser::advance
Advance ==
    /\ status = "running"
    /\ EofCount < MaxEofCalls
    /\ Outcome(parser_advance(parser, lexer, tokens, stderr))

\* the message of main.rs:36 (a message is held as a tuple, like the
\* messages of the Error tokens)
ConsumeMessage == <<"Expected to find token =">>

\* the diagnostics written by the mismatch branch of consume so far
Mismatches ==
    Cardinality({i \in 1..Len(stderr) : stderr[i].note = ConsumeMessage})

\* one call of Parser::consume(expected, message, labels)
Consume(expected, message, labels) ==
    /\ status = "running"
    /\ EofCount < MaxEofCalls
    /\ Mismatches < MaxMismatches
    /\ Outcome(consume(parser, lexer, tokens, stderr, expected, message, labels))

\* one call of Parser::parse_expression(precedence)
ParseExpression(precedence) ==
    /\ status = "running"
    /\ EofCount < MaxEofCalls
    /\ Outcome(parse_expression(parser, lexer, tokens, stderr, precedence))

\* one call of get_precedence on the kind of the token in `next`, as the
\* loop of parse_expression makes it
GetPrecedence ==
    /\ status = "running"
    /\ parser.next # NoToken
    /\ Len(lookups) < MaxLookups
    /\ lookups' = Append(lookups, [op |-> KV(parser.next),
                                   precedence |-> get_precedence(KV(parser.next))])
    /\ UNCHANGED <<source, lexer, tokens, status, overflow_checks, parser, stderr,
                   emitted, stdout>>

\* the effect of one call of emit_error with the result e: what it wrote is
\* on the standard error, and a panic ends the run
Emitted(e) ==
    /\ stderr' = e.stderr
    /\ status' = IF e.panic THEN "panicked" ELSE status
    /\ UNCHANGED <<source, lexer, tokens, overflow_checks, parser, lookups, stdout>>

\* one call of Responder::emit_error on a Responder that has written nothing
EmitError(kind, line, column, labels, message) ==
    /\ status = "running"
    /\ stderr = <<>>
    /\ emitted' = Append(emitted, [source |-> source, kind |-> kind, line |-> line,
                                   column |-> column, labels |-> labels,
                                   message |-> message])
    /\ Emitted(emit_error(stderr, kind, line, column, FileName, labels, message))

\* Display for Token: `{:?} at {}:{}` of the kind, the line and the column
TokenDisplay(tok) == [kind |-> KV(tok), line |-> tok.line, column |-> TokenColumn(tok)]

\* a turn of the loop that goes on after Eof: the Eof token is printed too
parse_turn_never_breaking(toks, out, r) ==
    IF r.panic
    THEN [lexer |-> r.lx, tokens |-> toks, stdout |-> out, status |-> "panicked"]
    ELSE [lexer |-> r.lx, tokens |-> Append(toks, r.tok),
          stdout |-> Append(out, TokenDisplay(r.tok)), status |-> "running"]

\* one turn of the loop of lib::parse, r being what next_token did: Eof
\* breaks the loop and parse returns, any other token is printed
parse_turn(toks, out, r) ==
    IF r.panic
    THEN [lexer |-> r.lx, tokens |-> toks, stdout |-> out, status |-> "panicked"]
    ELSE IF KV(r.tok) = Kind("Eof")
    THEN [lexer |-> r.lx, tokens |-> Append(toks, r.tok), stdout |-> out,
          status |-> "finished"]
    ELSE [lexer |-> r.lx, tokens |-> Append(toks, r.tok),
          stdout |-> Append(out, TokenDisplay(r.tok)), status |-> "running"]

\* the effect of a turn with the result t
Turned(t) ==
    /\ lexer' = t.lexer
    /\ tokens' = t.tokens
    /\ stdout' = t.stdout
    /\ status' = t.status
    /\ UNCHANGED <<source, overflow_checks, parser, stderr, lookups, emitted>>

\* one turn of the loop of lib::parse
ParseTurn ==
    /\ status = "running"
    /\ Turned(parse_turn(tokens, stdout, next_token(lexer)))

\* the state after Lexer::new(source), for a source of the set S, and after
\* Parser::new(source, filename), which creates its lexer the same way
InitWith(S) ==
    /\ source \in S
    /\ lexer = LexerNew
    /\ tokens = <<>>
    /\ status = "running"
    /\ overflow_checks \in BOOLEAN
    /\ parser = ParserNew
    /\ stderr = <<>>
    /\ lookups = <<>>
    /\ emitted = <<>>
    /\ stdout = <<>>

\* the sequences over A of length at most n
Strings(A, n) == UNION {[1..k -> A] : k \in 0..n}

(***************************************************************************)
(* Sources over a general alphabet: quotes, a newline, a space, a digit,   *)
(* a dot, a letter, a multi-byte letter and a character of no token.       *)
(***************************************************************************)
Alphabet == {"\"", "'", "\n", " ", "4", ".", "f", E_ACUTE, "#"}

Init == InitWith(Strings(Alphabet, MaxLen))

Next == NextToken

Spec == Init /\ [][Next]_vars

(***************************************************************************)
(* lib::parse on sources of blanks, strings, numbers, dots and             *)
(* identifiers. The loop is sequential code: it takes its turns one after  *)
(* the other until it breaks or the process panics, so a turn that can be  *)
(* taken is taken. This is weak fairness of ParseTurn, WF_vars(ParseTurn), *)
(* written out by its definition, with ENABLED <<ParseTurn>>_vars replaced *)
(* by what it equals, status = "running": a turn can be taken from every   *)
(* running state and changes `tokens` or `status`.                         *)
(***************************************************************************)
ParseAlphabet == {" ", "\"", "4", ".", "f"}

InitParse == InitWith(Strings(ParseAlphabet, MaxParseLen))

NextParse == ParseTurn

ParseTurnFairness == []<>(status # "running") \/ []<><<ParseTurn>>_vars

SpecParse == InitParse /\ [][NextParse]_vars /\ ParseTurnFairness

(***************************************************************************)
(* Sources of numbers: digit runs, dots and blanks, and the inputs of the  *)
(* test `numbers`.                                                         *)
(***************************************************************************)
NumberAlphabet == {"1", "4", ".", " "}

NumbersTestSources ==
    { <<"2", "5", " ", "3", "2", " ", "4", "3">>,
      <<"3", ".", "1", "4", "1", "5", "9", " ", "1", "2", ".", "2">>,
      <<"4", ".", "2", ".", "1">> }

InitNumbers == InitWith(Strings(NumberAlphabet, MaxNumLen) \cup NumbersTestSources)

SpecNumbers == InitNumbers /\ [][Next]_vars

(***************************************************************************)
(* Sources of operators: the 29 lexemes of the test `operators` with the   *)
(* kinds the test expects, joined by single blanks.                        *)
(***************************************************************************)
OperatorKinds ==
    (<<"(">> :> "OpenParen") @@ (<<")">> :> "CloseParen") @@
    (<<"[">> :> "OpenBracket") @@ (<<"]">> :> "CloseBracket") @@
    (<<"{">> :> "OpenBrace") @@ (<<"}">> :> "CloseBrace") @@
    (<<",">> :> "Comma") @@ (<<".">> :> "Dot") @@ (<<";">> :> "Semicolon") @@
    (<<"&", "&">> :> "And") @@ (<<"|", "|">> :> "Or") @@
    (<<".", ".">> :> "Range") @@ (<<".", ".", "=">> :> "RangeInclusive") @@
    (<<"=">> :> "Equal") @@ (<<"=", "=">> :> "EqualEqual") @@
    (<<"!">> :> "Bang") @@ (<<"!", "=">> :> "BangEqual") @@
    (<<">">> :> "Greater") @@ (<<">", "=">> :> "GreaterEqual") @@
    (<<"<">> :> "Less") @@ (<<"<", "=">> :> "LessEqual") @@
    (<<"+">> :> "Plus") @@ (<<"+", "=">> :> "PlusEqual") @@
    (<<"-">> :> "Minus") @@ (<<"-", "=">> :> "MinusEqual") @@
    (<<"*">> :> "Star") @@ (<<"*", "=">> :> "StarEqual") @@
    (<<"/">> :> "Slash") @@ (<<"/", "=">> :> "SlashEqual")

\* the line of the test `operators`, lexeme by lexeme
OperatorsTestLine ==
    << <<"(">>, <<")">>, <<"[">>, <<"]">>, <<"{">>, <<"}">>, <<",">>, <<".">>,
       <<";">>, <<"&", "&">>, <<"|", "|">>, <<".", ".">>, <<".", ".", "=">>,
       <<"=">>, <<"=", "=">>, <<"!">>, <<"!", "=">>, <<">">>, <<">", "=">>,
       <<"<">>, <<"<", "=">>, <<"+">>, <<"+", "=">>, <<"-">>, <<"-", "=">>,
       <<"*">>, <<"*", "=">>, <<"/">>, <<"/", "=">> >>

RECURSIVE JoinWithSpace(_)
\* the words of ws, in order, with one blank between two of them
JoinWithSpace(ws) ==
    IF ws = <<>> THEN <<>>
    ELSE IF Len(ws) = 1 THEN ws[1]
    ELSE ws[1] \o <<" ">> \o JoinWithSpace(Tail(ws))

OperatorSources ==
    {JoinWithSpace(ops) : ops \in Strings(DOMAIN OperatorKinds, MaxOps)}
        \cup {JoinWithSpace(OperatorsTestLine)}

InitOperators == InitWith(OperatorSources)

SpecOperators == InitOperators /\ [][Next]_vars

(***************************************************************************)
(* Sources of words: the 15 keywords, identifiers near a keyword (a        *)
(* prefix, a keyword with chars appended or put in front, a keyword with   *)
(* one char changed), the identifiers of the tests, each after blanks and  *)
(* before the end of the input, a blank or another word; and the lines of  *)
(* the tests `keywords` and `identifiers`.                                 *)
(***************************************************************************)
KeywordKinds ==
    (Keyword_class :> "Class") @@ (Keyword_else :> "Else") @@
    (Keyword_false :> "False") @@ (Keyword_for :> "For") @@
    (Keyword_fun :> "Fun") @@ (Keyword_if :> "If") @@
    (Keyword_impls :> "Impls") @@ (Keyword_import :> "Import") @@
    (Keyword_match :> "Match") @@ (Keyword_mut :> "Mut") @@
    (Keyword_return :> "Return") @@ (Keyword_trait :> "Trait") @@
    (Keyword_true :> "True") @@ (Keyword_let :> "Let") @@
    (Keyword_while :> "While")

Keywords == DOMAIN KeywordKinds

\* the line of the test `keywords`, word by word
KeywordsTestLine ==
    << Keyword_class, Keyword_else, Keyword_false, Keyword_for, Keyword_fun,
       Keyword_if, Keyword_impls, Keyword_import, Keyword_match, Keyword_mut,
       Keyword_return, Keyword_trait, Keyword_true, Keyword_let, Keyword_while >>

\* the line of the test `identifiers`, word by word
IdentifiersTestLine == << <<"f", "o", "o">>, <<"b", "a", "r">>, <<"b", "a", "z">> >>

\* the chars that turn a keyword into another identifier
ExtChars == {"x", "y", E_ACUTE}

NearKeywords ==
    UNION { {SubSeq(k, 1, n) : n \in 1..Len(k)}
            \cup {k \o e : e \in Strings(ExtChars, MaxExt)}
            \cup {<<c>> \o k : c \in ExtChars}
            \cup {[k EXCEPT ![n] = c] : n \in 1..Len(k), c \in ExtChars}
          : k \in Keywords }

Words ==
    NearKeywords \cup
    { <<"c", "l", "a", "s", "s", "y">>, <<"i", "f", "f", "y">>,
      <<"l", "e", "t", "s">>, <<"f", "o", "r", "m", "a", "t">>,
      <<"f", "o", "o">>, <<"b", "a", "r">>, <<"b", "a", "z">>, <<"_">> }

\* what follows the word
WordTails == { <<>>, <<" ">>, <<"\n", "x">> }

WordSources ==
    { [i \in 1..pad |-> " "] \o w \o t : pad \in 0..MaxPad, w \in Words, t \in WordTails }
        \cup {JoinWithSpace(KeywordsTestLine), JoinWithSpace(IdentifiersTestLine)}

InitWords == InitWith(WordSources)

SpecWords == InitWords /\ [][Next]_vars

(***************************************************************************)
(* Sources of operator characters: the two chars of with_double, the eight *)
(* of with_single_or_double, a digit and a blank, in every order.          *)
(***************************************************************************)
PunctAlphabet == {"&", "|", "=", "!", "<", ">", "+", "-", "*", "/", "5", " "}

InitPunct == InitWith(Strings(PunctAlphabet, MaxPunctLen))

SpecPunct == InitPunct /\ [][Next]_vars

(***************************************************************************)
(* Sources of char literals: the single quote, a letter, the char U+0000   *)
(* (a char a Rust string can hold like any other), a blank and a newline.  *)
(***************************************************************************)
CharAlphabet == {"'", "x", NUL, " ", "\n"}

InitChars == InitWith(Strings(CharAlphabet, MaxCharLen))

SpecChars == InitChars /\ [][Next]_vars

(***************************************************************************)
(* The parser on sources of a digit, `=`, a blank, a character of no       *)
(* token and a double quote: Parser::advance and Parser::consume in every  *)
(* order, consume with the expected kinds Equal and Int("5"), without      *)
(* labels, with the label of the first byte of the source or with the      *)
(* label of main.rs; and the parser on the source of main.rs.              *)
(***************************************************************************)
ParserAlphabet == {"5", "=", " ", "#", "\""}

ExpectedKinds == {Kind("Equal"), KindOf("Int", <<"5">>)}

\* the source of main.rs:29
MainSource == <<"l", "e", "t", " ", "x", " ", "1", "0">>

\* the label of main.rs:35
MainLabel == Label(0, 8, "Unexpected token")

ConsumeLabels == {<<>>, <<Label(0, 1, "Unexpected token")>>, <<MainLabel>>}

InitParser == InitWith(Strings(ParserAlphabet, MaxParserLen) \cup {MainSource})

NextParser ==
    \/ Advance
    \/ \E expected \in ExpectedKinds, labels \in ConsumeLabels :
          Consume(expected, ConsumeMessage, labels)

SpecParser == InitParser /\ [][NextParser]_vars

(***************************************************************************)
(* The parser driven by advance alone, call after call, on the same        *)
(* sources.                                                                *)
(***************************************************************************)
NextAdvance == Advance

SpecAdvance == InitParser /\ [][NextAdvance]_vars

(***************************************************************************)
(* Expressions: sources of a digit, the operators `+`, `*` and `=` and a   *)
(* blank, handed to parse_expression with a threshold of no infix level or *)
(* of the infix level 0 (the level of a token that is no operator), 1, 6   *)
(* or 7.                                                                   *)
(***************************************************************************)
ExprAlphabet == {"5", "+", "*", "=", " "}

Thresholds ==
    {Precedence(None, None), Precedence(None, Some(0)), Precedence(None, Some(1)),
     Precedence(None, Some(6)), Precedence(None, Some(7))}

InitExpr == InitWith(Strings(ExprAlphabet, MaxExprLen))

NextExpr == \E precedence \in Thresholds : ParseExpression(precedence)

SpecExpr == InitExpr /\ [][NextExpr]_vars

(***************************************************************************)
(* Precedence lookups: sources of the lexemes of every token kind (the 29  *)
(* operators, the 15 keywords, a string, a char, an integer, a float and   *)
(* an identifier), advanced over token by token, with get_precedence       *)
(* called on the token in `next`.                                          *)
(***************************************************************************)
Lexemes ==
    DOMAIN OperatorKinds \cup Keywords \cup
        { <<"\"", "a", "\"">>, <<"'", "a", "'">>, <<"5">>, <<"5", ".", "5">>, <<"x">> }

InitPrecedence == InitWith({JoinWithSpace(ls) : ls \in Strings(Lexemes, MaxLexemes)})

NextPrecedence == Advance \/ GetPrecedence

SpecPrecedence == InitPrecedence /\ [][NextPrecedence]_vars

(***************************************************************************)
(* The Responder alone: emit_error called once with up to MaxLabels labels *)
(* of byte offsets inside and outside the source, on sources that hold a   *)
(* char of two bytes.                                                      *)
(***************************************************************************)
ResponderAlphabet == {"a", E_ACUTE}

LabelOffsets == 0..(MaxResponderLen + 1)

Labels ==
    {Label(start, end, "Unexpected token") : start \in LabelOffsets, end \in LabelOffsets}
        \cup {Label(0, 1, "here")}

ErrorKinds == DOMAIN ErrorKindDisplay

InitResponder == InitWith(Strings(ResponderAlphabet, MaxResponderLen))

NextResponder ==
    \E kind \in ErrorKinds, labels \in Strings(Labels, MaxLabels) :
        EmitError(kind, 1, 0, labels, ConsumeMessage)

SpecResponder == InitResponder /\ [][NextResponder]_vars

(***************************************************************************)
(* What the claims are stated with.                                        *)
(***************************************************************************)
\* the token of the last call
LastToken == tokens[Len(tokens)]

\* the step is a call that returned the token of kind k and payload v
ReturnsToken(k, v) ==
    /\ status' = "running"
    /\ Len(tokens') = Len(tokens) + 1
    /\ KV(tokens'[Len(tokens')]) = KindOf(k, v)

\* the lexer is between two calls with the char at index i to take next
AtCallWith(i) == status = "running" /\ lexer.consumed = i - 1 /\ i <= Len(source)

\* the lexer is between two calls and the next call finds its lexeme
\* starting at index i, after the whitespace it skips
AtLexeme(i) ==
    /\ status = "running"
    /\ i \in (lexer.consumed + 1)..Len(source)
    /\ \A j \in (lexer.consumed + 1)..(i - 1) : source[j] \in {"\t", "\n", "\f", "\r", " "}
    /\ source[i] \notin {"\t", "\n", "\f", "\r", " "}

\* the step is a call that returned an Error token
ReturnsError ==
    /\ status' = "running"
    /\ Len(tokens') = Len(tokens) + 1
    /\ tokens'[Len(tokens')].kind = "Error"

\* the calls so far returned the tokens of `expected`, in order, and Eof
\* from then on, and none panicked
LexesTo(expected) ==
    /\ status = "running"
    /\ \A i \in 1..Len(tokens) :
          KV(tokens[i]) = IF i <= Len(expected) THEN expected[i] ELSE Kind("Eof")

RECURSIVE SplitAcc(_, _, _, _)
SplitAcc(s, seps, cur, acc) ==
    IF s = <<>> THEN (IF cur = <<>> THEN acc ELSE Append(acc, cur))
    ELSE IF Head(s) \in seps
    THEN SplitAcc(Tail(s), seps, <<>>, IF cur = <<>> THEN acc ELSE Append(acc, cur))
    ELSE SplitAcc(Tail(s), seps, Append(cur, Head(s)), acc)

\* the non-empty pieces of s between the chars of seps
SplitOn(s, seps) == SplitAcc(s, seps, <<>>, <<>>)

RECURSIVE Flatten(_)
Flatten(ss) == IF ss = <<>> THEN <<>> ELSE Head(ss) \o Flatten(Tail(ss))

DecimalDigits == {"0", "1", "2", "3", "4", "5", "6", "7", "8", "9"}

RECURSIVE RunLength(_, _, _)
\* the length of the longest run of chars of `set` in s from index i on
RunLength(s, i, set) ==
    IF i <= Len(s) /\ s[i] \in set THEN 1 + RunLength(s, i + 1, set) ELSE 0

\* the char of s at index i, NoChar past the end
CharAt(s, i) == IF i \in 1..Len(s) THEN s[i] ELSE NoChar

\* the whitespace of the specification that the alphabets hold
PatternWhiteSpace == {"\t", "\n", "\f", "\r", " "}

WhitespaceOnly(s) == \A i \in 1..Len(s) : s[i] \in PatternWhiteSpace

(***************************************************************************)
(* C1  Every call of next_token completes and returns one token: no        *)
(* source makes a call panic.                                              *)
(***************************************************************************)
C1_NextTokenNeverFails == status # "panicked"

(***************************************************************************)
(* C2  A call that starts on a `"` with no closing `"` before the end of   *)
(* the input returns an Error token whose message says the string literal  *)
(* is unterminated, having scanned to the end of the input.                *)
(***************************************************************************)
OpensUnterminatedString(i) ==
    /\ AtCallWith(i)
    /\ source[i] = "\""
    /\ \A j \in (i + 1)..Len(source) : source[j] # "\""

C2_UnterminatedStringIsError ==
    [][\A i \in 1..Len(source) :
          OpensUnterminatedString(i) =>
              /\ ReturnsToken("Error", UnterminatedString)
              /\ lexer'.consumed = Len(source)]_vars

(***************************************************************************)
(* C3  In a source of words and blanks, the token returned for a word that *)
(* is not one of the 15 keywords is Ident carrying the whole word, never a *)
(* keyword.                                                                *)
(***************************************************************************)
IdentChars == AsciiLetters \cup DecimalDigits \cup {"_", E_ACUTE}

\* the source is words separated by whitespace, no word starting on a digit
WordsOnly ==
    /\ \A i \in 1..Len(source) : source[i] \in IdentChars \cup PatternWhiteSpace
    /\ \A w \in {SplitOn(source, PatternWhiteSpace)[i] :
                    i \in 1..Len(SplitOn(source, PatternWhiteSpace))} :
          w[1] \notin DecimalDigits

\* the i-th word of the source was lexed to the kind k with the payload v
WordLexesTo(i, k, v) ==
    /\ Len(tokens) >= i => KV(tokens[i]) = KindOf(k, v)
    /\ ~(status = "panicked" /\ Len(tokens) = i - 1)

C3_NonKeywordIsIdent ==
    WordsOnly =>
        LET ws == SplitOn(source, PatternWhiteSpace)
        IN  \A i \in 1..Len(ws) :
               (ws[i] \notin Keywords /\ Len(tokens) >= i) =>
                   KV(tokens[i]) = KindOf("Ident", ws[i])

(***************************************************************************)
(* C4  A call that starts on a run of decimal digits followed by a `.`     *)
(* that no digit follows returns Int of the digits and leaves the `.`      *)
(* unconsumed.                                                             *)
(***************************************************************************)
DigitsThenLoneDot(i) ==
    LET n == RunLength(source, i, DecimalDigits)
    IN  /\ AtCallWith(i)
        /\ n > 0
        /\ CharAt(source, i + n) = "."
        /\ CharAt(source, i + n + 1) \notin DecimalDigits

C4_LoneDotLeavesInt ==
    [][\A i \in 1..Len(source) :
          DigitsThenLoneDot(i) =>
              LET n == RunLength(source, i, DecimalDigits)
              IN  /\ ReturnsToken("Int", SubSeq(source, i, i + n - 1))
                  /\ lexer'.consumed = i + n - 1]_vars

(***************************************************************************)
(* C5  In a source of numbers separated by blanks, a digit run lexes to    *)
(* Int of its text, `d1.d2` to Float of its text, and `d1.d2.d3` to        *)
(* Float("d1.d2"), Dot, Int("d3"): a literal absorbs at most one dot.      *)
(***************************************************************************)
\* the digit runs of a piece between its dots, <<>> when the piece has
\* another char, or a dot at an end, or two dots in a row
DigitRunsOf(piece) ==
    LET runs == SplitOn(piece, {"."})
        dots == Cardinality({i \in 1..Len(piece) : piece[i] = "."})
    IN  IF /\ \A i \in 1..Len(piece) : piece[i] \in DecimalDigits \cup {"."}
           /\ Len(runs) = dots + 1
        THEN runs ELSE <<>>

\* the tokens the claim gives for a piece with one, two or three digit runs
NumberTokens(piece) ==
    LET d == DigitRunsOf(piece)
    IN  CASE Len(d) = 1 -> <<KindOf("Int", d[1])>>
          [] Len(d) = 2 -> <<KindOf("Float", d[1] \o <<".">> \o d[2])>>
          [] Len(d) = 3 -> <<KindOf("Float", d[1] \o <<".">> \o d[2]),
                             Kind("Dot"), KindOf("Int", d[3])>>
          [] OTHER -> <<>>

NumbersOnly ==
    LET ps == SplitOn(source, {" "})
    IN  \A i \in 1..Len(ps) : Len(DigitRunsOf(ps[i])) \in 1..3

C5_AtMostOneDecimalPoint ==
    NumbersOnly =>
        LET ps == SplitOn(source, {" "})
        IN  LexesTo(Flatten([i \in 1..Len(ps) |-> NumberTokens(ps[i])]))

\* `d1.d2.d3` has been lexed to the end of the input
C5_Witness ==
    /\ ~ (\E i \in 1..Len(source) : source[i] = " ")
    /\ Len(DigitRunsOf(source)) = 3
    /\ Len(tokens) = 4
    /\ LastToken.kind = "Eof"
    /\ tokens[1].kind = "Float"

(***************************************************************************)
(* C6  In a source of operator lexemes joined by single blanks, the calls  *)
(* return the kinds of the lexemes in order and then Eof, and the call for *)
(* a lexeme leaves the lexer right after the last char of that lexeme.     *)
(***************************************************************************)
OperatorsOnly ==
    LET ps == SplitOn(source, {" "})
    IN  /\ source = JoinWithSpace(ps)
        /\ \A i \in 1..Len(ps) : ps[i] \in DOMAIN OperatorKinds

C6_OperatorsLexToTheirKinds ==
    OperatorsOnly =>
        LET ps == SplitOn(source, {" "})
            n == Len(tokens)
        IN  /\ LexesTo([i \in 1..Len(ps) |-> Kind(OperatorKinds[ps[i]])])
            /\ n \in 1..Len(ps) =>
                  lexer.consumed = Len(JoinWithSpace(SubSeq(ps, 1, n)))

\* `..= ==` has been lexed to the end of the input
C6_Witness ==
    /\ source = <<".", ".", "=", " ", "=", "=">>
    /\ Len(tokens) = 3
    /\ tokens[1].kind = "RangeInclusive"
    /\ tokens[2].kind = "EqualEqual"
    /\ tokens[3].kind = "Eof"

(***************************************************************************)
(* C7  Eof is perpetual: on an empty or whitespace-only source every call  *)
(* returns Eof; a call returns Eof only when every char of the source has  *)
(* been consumed; after an Eof every later call returns Eof.               *)
(***************************************************************************)
C7_PerpetualEof ==
    /\ WhitespaceOnly(source) =>
          /\ status = "running"
          /\ \A i \in 1..Len(tokens) : tokens[i].kind = "Eof"
    /\ \A i \in 1..Len(tokens) :
          tokens[i].kind = "Eof" =>
              /\ status = "running"
              /\ \A j \in i..Len(tokens) : tokens[j].kind = "Eof"
    /\ (tokens # <<>> /\ LastToken.kind = "Eof") => lexer.consumed = Len(source)

\* a source of blanks and newlines has answered two calls
C7_Witness ==
    /\ source # <<>>
    /\ WhitespaceOnly(source)
    /\ \E i \in 1..Len(source) : source[i] = "\n"
    /\ Len(tokens) >= 2

(***************************************************************************)
(* C8  In a source of words and blanks, each word that is one of the 15    *)
(* keywords lexes to its own keyword kind.                                 *)
(***************************************************************************)
C8_KeywordsLexToTheirKinds ==
    WordsOnly =>
        LET ws == SplitOn(source, PatternWhiteSpace)
        IN  \A i \in 1..Len(ws) :
               ws[i] \in Keywords => WordLexesTo(i, KeywordKinds[ws[i]], <<>>)

\* the line of the test `keywords` has been lexed to the end of the input
C8_Witness ==
    /\ source = JoinWithSpace(KeywordsTestLine)
    /\ Len(tokens) = Len(KeywordsTestLine) + 1
    /\ tokens[7].kind = "Impls"
    /\ LastToken.kind = "Eof"

(***************************************************************************)
(* C9  A call that starts on a `"` with a closing `"` later in the source  *)
(* returns one Str token whose value is the chars between the two quotes,  *)
(* newlines included, and consumes the literal through its closing quote.  *)
(***************************************************************************)
\* the index of the first `"` after index i, 0 when there is none
ClosingQuote(i) ==
    LET qs == {j \in (i + 1)..Len(source) : source[j] = "\""}
    IN  IF qs = {} THEN 0 ELSE CHOOSE j \in qs : \A k \in qs : j <= k

C9_StringValueVerbatim ==
    [][\A i \in 1..Len(source) :
          (AtCallWith(i) /\ source[i] = "\"" /\ ClosingQuote(i) # 0) =>
              /\ ReturnsToken("Str", SubSeq(source, i + 1, ClosingQuote(i) - 1))
              /\ lexer'.consumed = ClosingQuote(i)]_vars

(***************************************************************************)
(* C10  Between calls the line counter is 1 plus the number of newline     *)
(* chars consumed so far.                                                  *)
(***************************************************************************)
NewlinesConsumed == Cardinality({i \in 1..lexer.consumed : source[i] = "\n"})

C10_LineCountsNewlines == status = "running" => lexer.line = 1 + NewlinesConsumed
(***************************************************************************)
(* C11  A call whose lexeme starts on `&` (on `|`) followed by the same    *)
(* char returns And (Or) and consumes both chars; followed by anything     *)
(* else, or by the end of the input, it returns an Error token and         *)
(* consumes the one char only, so that the following char starts the next  *)
(* token.                                                                  *)
(***************************************************************************)
C11_LoneAmpersandOrPipeIsError ==
    [][\A i \in 1..Len(source) :
          AtLexeme(i) /\ source[i] \in {"&", "|"} =>
              IF CharAt(source, i + 1) = source[i]
              THEN /\ ReturnsToken(IF source[i] = "&" THEN "And" ELSE "Or", <<>>)
                   /\ lexer'.consumed = i + 1
              ELSE /\ ReturnsError
                   /\ lexer'.consumed = i]_vars

\* `&5` or `|5` was lexed to an Error token and then the Int of the digit,
\* or `&&` to And
C11_Witness ==
    /\ Len(source) >= 2 /\ Len(tokens) >= 2
    /\ source[1] \in {"&", "|"} /\ source[2] = "5"
    /\ tokens[1].kind = "Error"
    /\ KV(tokens[2]) = KindOf("Int", <<"5">>)

(***************************************************************************)
(* C12  A call whose lexeme starts on one of = ! < > + - * / returns the   *)
(* compound token and consumes two chars when the next char is `=`, and    *)
(* returns the single token and consumes one char otherwise; the kinds are *)
(* those the test `operators` expects.                                     *)
(***************************************************************************)
C12_SingleOrCompoundOperator ==
    [][\A i \in 1..Len(source) :
          AtLexeme(i) /\ source[i] \in {"=", "!", "<", ">", "+", "-", "*", "/"} =>
              IF CharAt(source, i + 1) = "="
              THEN /\ ReturnsToken(OperatorKinds[<<source[i], "=">>], <<>>)
                   /\ lexer'.consumed = i + 1
              ELSE /\ ReturnsToken(OperatorKinds[<<source[i]>>], <<>>)
                   /\ lexer'.consumed = i]_vars

\* `===` was lexed to EqualEqual, Equal and `+5` to Plus, Int
C12_Witness ==
    /\ Len(tokens) >= 2
    /\ \/ /\ source = <<"=", "=", "=">>
          /\ KV(tokens[1]) = Kind("EqualEqual") /\ KV(tokens[2]) = Kind("Equal")
       \/ /\ source = <<"+", "5">>
          /\ KV(tokens[1]) = Kind("Plus") /\ KV(tokens[2]) = KindOf("Int", <<"5">>)

(***************************************************************************)
(* C13  A call whose lexeme starts on a single quote followed by one char  *)
(* that is not a quote and then a closing quote returns Char of that char  *)
(* and consumes the three chars; in every other case (the empty literal,   *)
(* no closing quote after the one char, the quote at the end of the input) *)
(* it returns an Error token.                                              *)
(***************************************************************************)
C13_CharLiteral ==
    [][\A i \in 1..Len(source) :
          AtLexeme(i) /\ source[i] = "'" =>
              IF CharAt(source, i + 1) \notin {"'", NoChar} /\ CharAt(source, i + 2) = "'"
              THEN /\ ReturnsToken("Char", <<source[i + 1]>>)
                   /\ lexer'.consumed = i + 2
              ELSE ReturnsError]_vars

(***************************************************************************)
(* C14  Every call of next_token returns exactly one token and leaves the  *)
(* position of the lexer no smaller than it was, and a call that returns a *)
(* token other than Eof has consumed at least one char of the source.      *)
(***************************************************************************)
C14_OneTokenAndProgress ==
    [][NextToken =>
          /\ status' = "running"
          /\ Len(tokens') = Len(tokens) + 1
          /\ lexer'.position >= lexer.position
          /\ tokens'[Len(tokens')].kind # "Eof" => lexer'.consumed > lexer.consumed]_vars

(***************************************************************************)
(* C15  The span of every token other than Eof and Error is exactly its    *)
(* lexeme: with positions counted as the lexer counts them (the first char *)
(* of the source is at position 1, `end` is the position after the last    *)
(* char), start is the position of the first char of the lexeme and end    *)
(* the position after its last char, so that the chars of the span lex to  *)
(* the same token.                                                         *)
(***************************************************************************)
C15_SpanIsLexeme ==
    [][\A i \in 1..Len(source) :
          /\ AtLexeme(i)
          /\ status' = "running"
          /\ Len(tokens') = Len(tokens) + 1
          /\ tokens'[Len(tokens')].kind \notin {"Eof", "Error"}
          => /\ tokens'[Len(tokens')].start = i
             /\ tokens'[Len(tokens')].end = lexer'.consumed + 1]_vars

(***************************************************************************)
(* C16  The line stored in every token is the line on which its lexeme     *)
(* starts: one more than the number of newlines before the first char of   *)
(* the lexeme, also for a string literal that spans lines and for tokens   *)
(* on lines after the first.                                               *)
(***************************************************************************)
\* the line of the char at index i of the source
LineOf(i) == 1 + Cardinality({j \in 1..(i - 1) : source[j] = "\n"})

C16_LineOfLexemeStart ==
    [][\A i \in 1..Len(source) :
          /\ AtLexeme(i)
          /\ status' = "running"
          /\ Len(tokens') = Len(tokens) + 1
          => tokens'[Len(tokens')].line = LineOf(i)]_vars

(***************************************************************************)
(* C17  Every token returned carries a valid location: its start,          *)
(* position - length, has not wrapped below zero, and for every token      *)
(* other than Eof start <= end with both within the source (between the    *)
(* position before the first char and the position after the last).        *)
(***************************************************************************)
C17_ValidLocation ==
    \A k \in 1..Len(tokens) :
        /\ tokens[k].start >= 0
        /\ tokens[k].kind # "Eof" =>
              /\ tokens[k].start <= tokens[k].end
              /\ tokens[k].end <= Len(source) + 1

(***************************************************************************)
(* C18  After every return of Parser::advance (called directly or at the   *)
(* end of consume) `next` holds a token, and neither `next` nor `current`  *)
(* is an Error token, however many Error tokens the lexer yields in a row. *)
(***************************************************************************)
C18_NextIsNeverError ==
    [][status' = "running" =>
          /\ parser'.next # NoToken
          /\ parser'.next.kind # "Error"
          /\ parser'.current.kind # "Error"]_vars

\* the lexer has yielded two Error tokens in a row and advance has returned
\* with the token after them in `next`
C18_Witness ==
    /\ status = "running"
    /\ \E k \in 1..(Len(tokens) - 2) :
          /\ tokens[k].kind = "Error"
          /\ tokens[k + 1].kind = "Error"
          /\ parser.next = tokens[k + 2]
          /\ parser.next.kind = "Int"

(***************************************************************************)
(* C19  A call of Parser::advance that returns has shifted the lookahead   *)
(* by one: `current` is the old `next` (None after the first call) and     *)
(* `next` is the first token other than Error that the lexer yields from   *)
(* where it stood. On a source without Error tokens, after k calls `next`  *)
(* is the k-th token of the source and `current` the (k-1)-th.             *)
(***************************************************************************)
RECURSIVE ScanFrom(_, _)
\* the first n tokens next_token returns from the lexer lx on
ScanFrom(lx, n) ==
    IF n = 0 THEN <<>>
    ELSE LET r == next_token(lx) IN <<r.tok>> \o ScanFrom(r.lx, n - 1)

C19_AdvanceShiftsByOne ==
    [][Advance /\ status' = "running" =>
          /\ parser'.current = parser.next
          /\ Len(tokens') > Len(tokens)
          /\ tokens' = ScanFrom(LexerNew, Len(tokens'))
          /\ \A k \in (Len(tokens) + 1)..(Len(tokens') - 1) : tokens'[k].kind = "Error"
          /\ parser'.next = tokens'[Len(tokens')]
          /\ parser'.next.kind # "Error"
          /\ (\A k \in 1..Len(tokens') : tokens'[k].kind # "Error") =>
                parser'.current = IF Len(tokens') = 1 THEN NoToken
                                  ELSE tokens'[Len(tokens') - 1]]_vars

\* after one advance on `55`, next is Int("55") and current is None; after
\* the second, current is Int("55") and next is Eof
C19_Witness ==
    /\ source = <<"5", "5">>
    /\ Len(tokens) = 2
    /\ KV(tokens[1]) = KindOf("Int", <<"5", "5">>)
    /\ parser.current = tokens[1]
    /\ parser.next.kind = "Eof"

(***************************************************************************)
(* C20  A call of Parser::consume made after at least one advance, with    *)
(* labels that lie within the source, does not abort: it writes exactly    *)
(* one Invalid Syntax diagnostic with the given message, the given labels  *)
(* and the line and column of the token in `next` when the kind of that    *)
(* token differs from the expected one, and none with that message when it *)
(* does not, and in both cases it then moves the cursor on by one token.   *)
(***************************************************************************)
\* the diagnostic consume writes for the token `token`
ConsumeDiagnostic(token, message, labels) ==
    [kind |-> "Invalid Syntax", filename |-> FileName,
     line |-> token.line, column |-> TokenColumn(token),
     labels |-> [k \in 1..Len(labels) |->
                    [snippet |-> SubSeq(source, labels[k].start + 1, labels[k].end),
                     indent |-> labels[k].start + 1,
                     text |-> labels[k].text]],
     note |-> message, complete |-> TRUE]

LabelsInSource(labels) ==
    \A k \in 1..Len(labels) :
        0 <= labels[k].start /\ labels[k].start <= labels[k].end
                             /\ labels[k].end <= Len(source)

C20_ConsumeReportsAndAdvances ==
    [][\A expected \in ExpectedKinds, labels \in ConsumeLabels :
          /\ parser.next # NoToken
          /\ LabelsInSource(labels)
          /\ Consume(expected, ConsumeMessage, labels)
          => /\ status' = "running"
             /\ IF KV(parser.next) # expected
                THEN /\ Len(stderr') > Len(stderr)
                     /\ stderr'[Len(stderr) + 1] =
                            ConsumeDiagnostic(parser.next, ConsumeMessage, labels)
                     /\ Mismatches' = Mismatches + 1
                ELSE Mismatches' = Mismatches
             /\ parser'.current = parser.next
             /\ parser'.next = tokens'[Len(tokens')]
             /\ parser'.next.kind # "Error"]_vars

(***************************************************************************)
(* C21  On the source `let x 10`, after two calls of advance, the call     *)
(* consume(Equal, message, [label]) of main.rs returns, writes exactly one *)
(* Invalid Syntax diagnostic, and the location of that diagnostic is the   *)
(* location of the token `10`, the token that follows the identifier `x`   *)
(* where `=` was expected.                                                 *)
(***************************************************************************)
\* the parser of main.rs after its two calls of advance
MainBeforeConsume ==
    /\ source = MainSource
    /\ status = "running"
    /\ Len(tokens) = 2
    /\ parser.next = tokens[2]
    /\ stderr = <<>>

C21_LetWithoutEqual ==
    [][MainBeforeConsume /\ Consume(Kind("Equal"), ConsumeMessage, <<MainLabel>>) =>
          /\ status' = "running"
          /\ Len(stderr') = 1
          /\ stderr'[1].kind = "Invalid Syntax"
          /\ Len(tokens') = 3
          /\ KV(tokens'[3]) = KindOf("Int", <<"1", "0">>)
          /\ stderr'[1].line = tokens'[3].line
          /\ stderr'[1].column = TokenColumn(tokens'[3])]_vars

(***************************************************************************)
(* C22  With the parser driven by advance alone, the diagnostics written   *)
(* are at every moment exactly those of the Error tokens the lexer has     *)
(* returned so far: one Invalid Syntax diagnostic per Error token, in the  *)
(* order of the tokens, each with the message and the line and column of   *)
(* its token and no label; the lexer writes none itself, and the later     *)
(* Error tokens are reported like the first.                               *)
(***************************************************************************)
IsErrorToken(t) == t.kind = "Error"

\* the Error tokens among the tokens returned so far, in order
ErrorTokens == SelectSeq(tokens, IsErrorToken)

\* the diagnostic of the Error token t
ErrorDiagnostic(t) ==
    [kind |-> "Invalid Syntax", filename |-> FileName,
     line |-> t.line, column |-> TokenColumn(t),
     labels |-> <<>>, note |-> t.value, complete |-> TRUE]

C22_OneDiagnosticPerErrorToken ==
    stderr = [k \in 1..Len(ErrorTokens) |-> ErrorDiagnostic(ErrorTokens[k])]

\* advance has reached Eof over a source with two Error tokens apart from
\* each other, and both have been reported
C22_Witness ==
    /\ status = "running"
    /\ parser.next.kind = "Eof"
    /\ Len(ErrorTokens) = 2
    /\ Len(tokens) = 4
    /\ tokens[1].kind = "Error" /\ tokens[2].kind = "Int" /\ tokens[3].kind = "Error"
    /\ Len(stderr) = 2
    /\ stderr[2].column = 3

(***************************************************************************)
(* C23  The cursor has no error state and its exhausted state is           *)
(* absorbing. Every call of advance or consume that returns, whether or    *)
(* not it wrote a diagnostic, moves the old `next` to `current`, leaves    *)
(* the last token pulled in `next` and the lexer where pulling the tokens  *)
(* put it; and once `next` holds Eof, every later call that returns leaves *)
(* Eof in `next` and in `current`.                                         *)
(***************************************************************************)
RECURSIVE LexerAfter(_, _)
\* the lexer after n calls of next_token from the lexer lx on
LexerAfter(lx, n) ==
    IF n = 0 THEN lx ELSE LexerAfter(next_token(lx).lx, n - 1)

C23_NoErrorStateAndEofAbsorbing ==
    [][status' = "running" =>
          /\ parser'.current = parser.next
          /\ parser'.next = tokens'[Len(tokens')]
          /\ tokens' = ScanFrom(LexerNew, Len(tokens'))
          /\ lexer' = LexerAfter(LexerNew, Len(tokens'))
          /\ parser.next.kind = "Eof" =>
                /\ parser'.next.kind = "Eof"
                /\ parser'.current.kind = "Eof"]_vars

\* consume has reported a mismatch on the Eof in `next` and the cursor
\* holds Eof in both fields
C23_Witness ==
    /\ status = "running"
    /\ parser.next.kind = "Eof"
    /\ parser.current.kind = "Eof"
    /\ Len(stderr) >= 1
    /\ stderr[Len(stderr)].note = ConsumeMessage
    /\ stderr[Len(stderr)].column = TokenColumn(parser.current)

(***************************************************************************)
(* C24  On a source `x A y B z` of three integer literals and two binary   *)
(* operators where the infix level of A is greater than or equal to that   *)
(* of B, parse_expression called with a threshold not above the level of B *)
(* returns, and the expression it produces (as its value, or as the        *)
(* statement it adds to ast) is the tree (x A y) B z.                      *)
(***************************************************************************)
BinaryOperatorChars == ("+" :> "Plus") @@ ("*" :> "Star")

\* the source is integer literals of one digit with one binary operator
\* between two of them
LiteralsAndOperators ==
    /\ Len(source) % 2 = 1
    /\ \A i \in 1..Len(source) :
          IF i % 2 = 1 THEN source[i] = "5"
          ELSE source[i] \in DOMAIN BinaryOperatorChars

\* the infix level of the binary operator written c
InfixLevel(c) == unwrap_or(get_precedence(Kind(BinaryOperatorChars[c])).infix, 0)

RECURSIVE Shape(_)
\* an expression without its positions
Shape(e) ==
    IF e.node = "Literal" THEN <<"Literal", e.value.value>>
    ELSE IF e.node = "Binary" THEN <<"Binary", e.op, Shape(e.lhs), Shape(e.rhs)>>
    ELSE <<e.node>>

\* the tree (x A y) B z of the source `5 A 5 B 5`, without positions
LeftNested ==
    <<"Binary", BinaryOperatorChars[source[4]],
      <<"Binary", BinaryOperatorChars[source[2]], <<"Literal", 5>>, <<"Literal", 5>> >>,
      <<"Literal", 5>> >>

C24_HigherPrecedenceBindsFirst ==
    [][\A precedence \in Thresholds :
          /\ LiteralsAndOperators
          /\ Len(source) = 5
          /\ InfixLevel(source[2]) >= InfixLevel(source[4])
          /\ unwrap_or(precedence.infix, 0) <= InfixLevel(source[4])
          /\ tokens = <<>>
          /\ ParseExpression(precedence)
          => /\ status' = "running"
             /\ \/ Shape(parse_expression(parser, lexer, tokens, stderr,
                                          precedence).value) = LeftNested
                \/ /\ Len(parser'.ast) = 1
                   /\ Shape(parser'.ast[1]) = LeftNested]_vars

(***************************************************************************)
(* C25  On a source of integer literals with one binary operator between   *)
(* two of them, the first call of parse_expression returns for every       *)
(* threshold, and when it returns the token that follows the part it       *)
(* parsed is no operator (Eof) or an operator whose infix level is below   *)
(* the threshold; a lone literal followed by Eof is parsed without         *)
(* failure.                                                                *)
(***************************************************************************)
C25_ParseExpressionReturns ==
    [][\A precedence \in Thresholds :
          /\ LiteralsAndOperators
          /\ tokens = <<>>
          /\ ParseExpression(precedence)
          => /\ status' = "running"
             /\ \/ next_token(lexer').tok.kind = "Eof"
                \/ unwrap_or(get_precedence(KV(next_token(lexer').tok)).infix, 0)
                       < unwrap_or(precedence.infix, 0)]_vars

(***************************************************************************)
(* C26  Every Precedence that get_precedence returns for a binary operator *)
(* has an infix level, equal to that of the operators of its class and     *)
(* strictly above that of every operator of a class before it in the order *)
(* assignment, `||`, `&&`, equality, comparison, term, factor, call; the   *)
(* prefix level returned for Minus and for Bang is strictly above the      *)
(* infix level of every operator from assignment to factor, that of Minus  *)
(* above its own infix level, and Bang has no infix level.                 *)
(***************************************************************************)
\* the operator classes of the claim, lowest first
OperatorClasses ==
    << {"Equal", "PlusEqual", "MinusEqual", "StarEqual", "SlashEqual"},
       {"Or"}, {"And"}, {"EqualEqual", "BangEqual"},
       {"Greater", "GreaterEqual", "Less", "LessEqual"},
       {"Plus", "Minus"}, {"Star", "Slash"}, {"OpenParen", "Dot"} >>

ClassedKinds == UNION {OperatorClasses[i] : i \in 1..Len(OperatorClasses)}

\* assignment through factor
BinaryKinds == UNION {OperatorClasses[i] : i \in 1..(Len(OperatorClasses) - 1)}

Rank(k) == CHOOSE i \in 1..Len(OperatorClasses) : k \in OperatorClasses[i]

C26_PrecedenceOrder ==
    \A n \in 1..Len(lookups) :
        LET k == lookups[n].op.kind
            found == lookups[n].precedence
        IN  /\ k \in ClassedKinds =>
                  /\ found.infix # None
                  /\ \A other \in ClassedKinds :
                        /\ get_precedence(Kind(other)).infix # None
                        /\ Rank(other) < Rank(k) =>
                              get_precedence(Kind(other)).infix[1] < found.infix[1]
                        /\ Rank(other) = Rank(k) =>
                              get_precedence(Kind(other)).infix[1] = found.infix[1]
            /\ k \in {"Minus", "Bang"} =>
                  /\ found.prefix # None
                  /\ \A other \in BinaryKinds :
                        get_precedence(Kind(other)).infix[1] < found.prefix[1]
            /\ k = "Minus" => found.infix[1] < found.prefix[1]
            /\ k = "Bang" => found.infix = None

\* get_precedence has been called on the Minus in `next`
C26_Witness ==
    /\ Len(lookups) >= 1
    /\ lookups[1].op = Kind("Minus")
    /\ parser.next.kind = "Minus"
    /\ lookups[1].precedence.prefix # None

(***************************************************************************)
(* C27  In every Precedence that get_precedence returns, a token kind that *)
(* cannot continue an expression as an infix operator (a literal, an       *)
(* identifier, a keyword, a closing delimiter, `,`, `;`, Eof, Bang) has    *)
(* infix = None, and a token kind that cannot begin a prefix expression    *)
(* (every binary operator but Minus, a closing delimiter, `,`, `;`, Eof)   *)
(* has prefix = None.                                                      *)
(***************************************************************************)
\* the kinds the claim lists as unable to continue an expression
NoInfixKinds ==
    {"Str", "Char", "Int", "Float", "Ident", "CloseParen", "CloseBracket",
     "CloseBrace", "Comma", "Semicolon", "Eof", "Bang"}
        \cup {KeywordKinds[w] : w \in Keywords}

\* kinds that cannot begin an expression
NoPrefixKinds ==
    (ClassedKinds \ {"Minus", "OpenParen"})
        \cup {"CloseParen", "CloseBracket", "CloseBrace", "Comma", "Semicolon", "Eof"}

C27_NoneMarksNoRole ==
    \A n \in 1..Len(lookups) :
        /\ lookups[n].op.kind \in NoInfixKinds => lookups[n].precedence.infix = None
        /\ lookups[n].op.kind \in NoPrefixKinds => lookups[n].precedence.prefix = None

(***************************************************************************)
(* C28  A call of emit_error with k labels, each with                      *)
(* 0 <= start <= end <= length of the source, writes the error-kind line,  *)
(* the `at file:line:column` line, exactly k label entries in the order of *)
(* the labels, entry i showing the substring of the source from offset     *)
(* start_i up to offset end_i and then the text of label i, and last the   *)
(* note line; it returns and leaves the source unchanged.                  *)
(***************************************************************************)
\* the byte offset at which the i-th char of the source begins
OffsetOf(i) == ByteLen(SubSeq(source, 1, i - 1))

\* the chars of the source that lie between the byte offsets start and end
Substring(start, end) ==
    LET inside == {i \in 1..Len(source) :
                      start <= OffsetOf(i) /\ OffsetOf(i) + Utf8Len(source[i]) <= end}
    IN  [k \in 1..Cardinality(inside) |->
            source[CHOOSE i \in inside : Cardinality({j \in inside : j < i}) = k - 1]]

InRange(label) ==
    0 <= label.start /\ label.start <= label.end /\ label.end <= ByteLen(source)

\* both offsets of the label are at the beginning of a char or at the end
OnCharBoundaries(label) ==
    {label.start, label.end} \subseteq {OffsetOf(i) : i \in 1..(Len(source) + 1)}

\* the diagnostic of the claim
WholeDiagnostic(kind, line, column, labels, message) ==
    [kind |-> ErrorKindDisplay[kind], filename |-> FileName,
     line |-> line, column |-> column,
     labels |-> [k \in 1..Len(labels) |->
                    [snippet |-> Substring(labels[k].start, labels[k].end),
                     indent |-> labels[k].start + 1,
                     text |-> labels[k].text]],
     note |-> message, complete |-> TRUE]

C28_InRangeLabelsRendered ==
    \A n \in 1..Len(emitted) :
        (\A k \in 1..Len(emitted[n].labels) : InRange(emitted[n].labels[k]))
        => /\ stderr[n] = WholeDiagnostic(emitted[n].kind, emitted[n].line,
                                          emitted[n].column, emitted[n].labels,
                                          emitted[n].message)
           /\ status = "running"
           /\ source = emitted[n].source

\* C28 for labels that are in range and whose offsets are on char boundaries
C28_AlignedLabelsRendered ==
    \A n \in 1..Len(emitted) :
        (\A k \in 1..Len(emitted[n].labels) :
            InRange(emitted[n].labels[k]) /\ OnCharBoundaries(emitted[n].labels[k]))
        => /\ stderr[n] = WholeDiagnostic(emitted[n].kind, emitted[n].line,
                                          emitted[n].column, emitted[n].labels,
                                          emitted[n].message)
           /\ status = "running"
           /\ source = emitted[n].source

\* emit_error has returned after two labels with different snippets, the
\* second before the first in the source, one of them the char of two bytes
C28_Witness ==
    /\ status = "running"
    /\ Len(emitted) = 1
    /\ Len(emitted[1].labels) = 2
    /\ source = <<"a", E_ACUTE>>
    /\ Len(stderr) = 1
    /\ stderr[1].complete
    /\ Len(stderr[1].labels) = 2
    /\ stderr[1].labels[1].snippet = <<E_ACUTE>>
    /\ stderr[1].labels[2].snippet = <<"a">>
    /\ stderr[1].note = ConsumeMessage

(***************************************************************************)
(* C29  A call of emit_error with a label whose end is past the end of the *)
(* source or whose start is past its end writes no diagnostic about that   *)
(* label and does not return: it panics at the slice of that label (the    *)
(* first such label), with the header and the entries of all the labels    *)
(* before it written, in order, and the note line not written.             *)
(***************************************************************************)
\* the label's end is past the end of the source or its start past its end
OutOfRange(label) == label.end > ByteLen(source) \/ label.start > label.end

\* the labels before the first one that is out of range
BeforeOutOfRange(labels) ==
    LET first == CHOOSE k \in 1..Len(labels) :
                    /\ OutOfRange(labels[k])
                    /\ \A j \in 1..(k - 1) : ~OutOfRange(labels[j])
    IN  SubSeq(labels, 1, first - 1)

\* the diagnostic of a call that panicked after the entries of `written`
CutDiagnostic(call, written) ==
    [WholeDiagnostic(call.kind, call.line, call.column, written, call.message)
        EXCEPT !.note = <<>>, !.complete = FALSE]

C29_BadLabelPanicsAtItsSlice ==
    \A n \in 1..Len(emitted) :
        (\E k \in 1..Len(emitted[n].labels) : OutOfRange(emitted[n].labels[k]))
        => /\ status = "panicked"
           /\ Len(stderr) = n
           /\ stderr[n] = CutDiagnostic(emitted[n], BeforeOutOfRange(emitted[n].labels))

\* C29 for calls whose labels before the out-of-range one have both offsets
\* on char boundaries
C29_BadLabelAfterAlignedLabels ==
    \A n \in 1..Len(emitted) :
        /\ \E k \in 1..Len(emitted[n].labels) : OutOfRange(emitted[n].labels[k])
        /\ \A j \in 1..Len(BeforeOutOfRange(emitted[n].labels)) :
              OnCharBoundaries(emitted[n].labels[j])
        => /\ status = "panicked"
           /\ Len(stderr) = n
           /\ stderr[n] = CutDiagnostic(emitted[n], BeforeOutOfRange(emitted[n].labels))

\* emit_error has panicked at its second label, with the first one written
C29_Witness ==
    /\ status = "panicked"
    /\ Len(emitted) = 1
    /\ Len(emitted[1].labels) = 2
    /\ emitted[1].labels[2].end > ByteLen(source)
    /\ source = <<"a">>
    /\ Len(stderr) = 1
    /\ ~stderr[1].complete
    /\ stderr[1].note = <<>>
    /\ Len(stderr[1].labels) = 1
    /\ stderr[1].labels[1].snippet = <<"a">>

(***************************************************************************)
(* C30  Tokens are produced on demand and the parser holds two of them:    *)
(* after Parser::new the lexer has not been called and `current` and       *)
(* `next` are None; a call of advance that returns has called next_token   *)
(* once and once more for every Error token it skipped; on a source        *)
(* without Error tokens every advance adds one token to those the lexer    *)
(* has produced, so that k advances have produced k; and the parser holds  *)
(* the last two tokens other than Error that were produced, in `current`   *)
(* and `next`, and no other.                                               *)
(***************************************************************************)
\* the tokens other than Error that the lexer has produced
Kept == SelectSeq(tokens, LAMBDA t : t.kind # "Error")

\* the tokens the call that ends in the next state has pulled
Pulled == SubSeq(tokens', Len(tokens) + 1, Len(tokens'))

C30_LazyTwoTokenWindow ==
    /\ tokens = <<>> /\ lexer = LexerNew
    /\ parser.current = NoToken /\ parser.next = NoToken
    /\ [][Advance /\ status' = "running" =>
             /\ SubSeq(tokens', 1, Len(tokens)) = tokens
             /\ Len(Pulled) = 1 + Cardinality({k \in 1..Len(Pulled) :
                                                  Pulled[k].kind = "Error"})
             /\ (\A k \in 1..Len(tokens') : tokens'[k].kind # "Error") =>
                    Len(tokens') = Len(tokens) + 1]_vars
    /\ [](status = "running" =>
             /\ DOMAIN parser = {"ast", "current", "next"}
             /\ parser.ast = <<>>
             /\ parser.next = IF Kept = <<>> THEN NoToken ELSE Kept[Len(Kept)]
             /\ parser.current = IF Len(Kept) < 2 THEN NoToken
                                  ELSE Kept[Len(Kept) - 1])

\* three advances on `5 5` have produced three tokens, of which the parser
\* holds the last two
C30_Witness ==
    /\ status = "running"
    /\ source = <<"5", " ", "5">>
    /\ Len(tokens) = 3
    /\ parser.current = tokens[2]
    /\ parser.next = tokens[3]
    /\ parser.next.kind = "Eof"

(***************************************************************************)
(* C31  A call of Parser::consume leaves `current`, `next`, the position   *)
(* and line of the lexer and the `ast` list as a call of advance from the  *)
(* same state leaves them, and ends as that advance ends, whatever the     *)
(* expected kind, the message and the labels are; a mismatch adds one      *)
(* diagnostic to the standard error, before those of the advance, and      *)
(* changes nothing else.                                                   *)
(***************************************************************************)
\* the step leaves the cursor, the lexer and the tokens produced as the
\* advance with the result a does, and the standard error as well but for
\* `reports` diagnostics with the message of the consume before those of
\* the advance
SameAsAdvance(a, reports) ==
    /\ parser' = a.parser
    /\ lexer' = a.lexer
    /\ tokens' = a.tokens
    /\ (status' = "panicked") = a.panic
    /\ Len(stderr') = Len(a.stderr) + reports
    /\ SubSeq(stderr', 1, Len(stderr)) = stderr
    /\ \A k \in 1..reports : stderr'[Len(stderr) + k].note = ConsumeMessage
    /\ SubSeq(stderr', Len(stderr) + reports + 1, Len(stderr'))
           = SubSeq(a.stderr, Len(stderr) + 1, Len(a.stderr))
    /\ source' = source

C31_ConsumeMovesAsAdvance ==
    [][\A expected \in ExpectedKinds, labels \in ConsumeLabels :
          Consume(expected, ConsumeMessage, labels)
          => SameAsAdvance(parser_advance(parser, lexer, tokens, stderr),
                           IF KV(parser.next) # expected THEN 1 ELSE 0)]_vars

\* C31 for a consume made after an advance, with labels that lie within the
\* source on char boundaries when the kinds differ
C31_ConsumeAfterAdvanceMovesAsAdvance ==
    [][\A expected \in ExpectedKinds, labels \in ConsumeLabels :
          /\ parser.next # NoToken
          /\ \/ KV(parser.next) = expected
             \/ \A k \in 1..Len(labels) :
                    InRange(labels[k]) /\ OnCharBoundaries(labels[k])
          /\ Consume(expected, ConsumeMessage, labels)
          => SameAsAdvance(parser_advance(parser, lexer, tokens, stderr),
                           IF KV(parser.next) # expected THEN 1 ELSE 0)]_vars

\* on `5=`, consume has reported the Int in `next` where `=` was expected,
\* with a label, and has moved the cursor on to `=`
C31_Witness ==
    /\ status = "running"
    /\ source = <<"5", "=">>
    /\ Len(tokens) = 2
    /\ parser.current = tokens[1]
    /\ parser.next = tokens[2]
    /\ KV(parser.next) = Kind("Equal")
    /\ Len(stderr) = 1
    /\ stderr[1].note = ConsumeMessage
    /\ Len(stderr[1].labels) = 1

(***************************************************************************)
(* C32  On every source, the loop of lib::parse ends unless a call of      *)
(* next_token panics: Eof is eventually returned and the loop breaks, with *)
(* no call of next_token after it; until then every token is printed, and  *)
(* there are at most as many tokens other than Eof as the source has       *)
(* chars.                                                                  *)
(***************************************************************************)
C32_ParseLoopTerminates ==
    /\ <>(status = "finished" \/ status = "panicked")
    /\ [](status = "finished" =>
             /\ tokens # <<>>
             /\ tokens[Len(tokens)].kind = "Eof"
             /\ at_end(lexer))
    /\ [](status # "panicked" =>
             /\ \A k \in 1..(Len(tokens) - 1) : tokens[k].kind # "Eof"
             /\ Len(stdout) <= Len(source)
             /\ stdout = [k \in 1..Len(stdout) |-> TokenDisplay(tokens[k])]
             /\ Len(tokens) - Len(stdout) = IF status = "finished" THEN 1 ELSE 0)

\* the loop has broken at Eof after as many tokens as the source has chars
C32_Witness ==
    /\ status = "finished"
    /\ Len(source) = 3
    /\ Len(stdout) = 3
    /\ Len(tokens) = 4
    /\ tokens[4].kind = "Eof"
    /\ \A k \in 1..3 : tokens[k].kind # "Error"

====
